---- MODULE Spec2Model ----
(***************************************************************************)
(* A model of solver.py: the word filter word_choices, the letter scores   *)
(* (letter_probabilities, word_letter_scores) and the interactive session  *)
(* of the __main__ block.                                                  *)
(*                                                                         *)
(* A word is a tuple of one-letter strings; a typed input line is a tuple  *)
(* of characters, lower case ("a") or upper case ("A").  A pandas Series   *)
(* is a sequence of rows [index, value] and the DataFrame of the session   *)
(* is a sequence of rows [index, word, letter_score]: the index labels     *)
(* travel with the rows, as in pandas.  Python dictionaries are functions  *)
(* from their keys (0-based positions) to their values; they are iterated  *)
(* by ascending key, the masks they produce being and-ed together in any   *)
(* order.  Probabilities are exact fractions <<numerator, denominator>>.   *)
(***************************************************************************)
EXTENDS Integers, Sequences, FiniteSets, TLC

VARIABLES
    cached,                     \* the cached result of five_letter_words_english()
    words,                      \* the DataFrame `words` (in SpecWC: the Series passed in)
    in_place,                   \* dict: index -> character
    out_of_place,               \* dict: index -> list of characters
    not_in_word,                \* list of characters
    choices,                    \* the Series last returned by word_choices
    pc,                         \* where the program is: "loop", "green", "yellow", "done"
    green,                      \* the line read at the first prompt
    yellow,                     \* the line read at the second prompt
    word,                       \* green.lower()
    in_word_indices,            \* the set in_word_indices
    highest_letter_score_word,  \* the suggestions of the current round
    most_used_word,
    printed,                    \* the final message: <<kind, word>>, or <<>>
    rounds,                     \* completed passes of the main loop
    target                      \* the word the user is solving for (SpecTruthful)

vars == <<cached, words, in_place, out_of_place, not_in_word, choices, pc, green,
          yellow, word, in_word_indices, highest_letter_score_word, most_used_word,
          printed, rounds, target>>

(***************************************************************************)
(* Bounds of the model.                                                    *)
(***************************************************************************)
MaxRounds == 2
MaxEntries == 3

(***************************************************************************)
(* Characters and strings.                                                 *)
(***************************************************************************)
\* the letters of the alphabet string of letter_probabilities, and their set
Alphabet == <<"a", "b", "c">>

Letters == {Alphabet[k] : k \in 1..Len(Alphabet)}

Capitals == {"A", "B", "C"}

NA == "<NA>"

isupper(character) == character \in Capitals

lower(character) ==
    CASE character = "A" -> "a"
      [] character = "B" -> "b"
      [] character = "C" -> "c"
      [] OTHER -> character

upper(character) ==
    CASE character = "a" -> "A"
      [] character = "b" -> "B"
      [] character = "c" -> "C"
      [] OTHER -> character

str_lower(s) == [k \in 1..Len(s) |-> lower(s[k])]

all_isupper(s) == \A k \in 1..Len(s) : isupper(s[k])

\* Series.str.get(index): the character at a 0-based index, <NA> beyond the end
str_get(w, index) == IF index + 1 \in 1..Len(w) THEN w[index + 1] ELSE NA

\* Series.str.count(character)
str_count(w, character) == Cardinality({k \in 1..Len(w) : w[k] = character})

\* Series.str.contains(character)
str_contains(w, character) == \E k \in 1..Len(w) : w[k] = character

\* list.count(character)
list_count(list, character) == Cardinality({k \in 1..Len(list) : list[k] = character})

RECURSIVE SortedSeq(_)
SortedSeq(S) ==
    IF S = {} THEN <<>>
    ELSE LET m == CHOOSE x \in S : \A y \in S : x <= y
         IN  <<m>> \o SortedSeq(S \ {m})

RECURSIVE Concat(_)
Concat(lists) == IF lists = <<>> THEN <<>> ELSE Head(lists) \o Concat(Tail(lists))

\* dict.keys(), dict.values(), dict.items() as sequences
dict_keys(d) == SortedSeq(DOMAIN d)

dict_values(d) == [k \in 1..Len(dict_keys(d)) |-> d[dict_keys(d)[k]]]

\* the (index, character) pairs of out_of_place, list by list
out_of_place_items(oop) ==
    Concat([k \in 1..Len(dict_keys(oop)) |->
              [j \in 1..Len(oop[dict_keys(oop)[k]]) |->
                 <<dict_keys(oop)[k], oop[dict_keys(oop)[k]][j]>>]])

EmptyDict == [k \in {} |-> NA]

dict_set(d, key, value) == [k \in DOMAIN d \cup {key} |-> IF k = key THEN value ELSE d[k]]

(***************************************************************************)
(* Series and boolean masks.                                               *)
(***************************************************************************)
Series(list) == [k \in 1..Len(list) |-> [index |-> k - 1, value |-> list[k]]]

series_values(series) == [k \in 1..Len(series) |-> series[k].value]

series_index(series) == [k \in 1..Len(series) |-> series[k].index]

RECURSIVE seq_sum(_)
seq_sum(numbers) == IF numbers = <<>> THEN 0 ELSE Head(numbers) + seq_sum(Tail(numbers))

\* `x == character` and `x != character` on the string dtype: <NA> compares to <NA>,
\* and a boolean mask with <NA> selects as if it were False
mask_eq(x, character) == x # NA /\ x = character

mask_ne(x, character) == x # NA /\ x # character

(***************************************************************************)
(* letter_probabilities and word_letter_scores.                            *)
(***************************************************************************)
frac_le(x, y) == x[1] * y[2] <= y[1] * x[2]

frac_eq(x, y) == x[1] * y[2] = y[1] * x[2]

frac_div(x, y) == <<x[1] * y[2], x[2] * y[1]>>

\* words.str.count(letter).sum()
letter_occurrences(series, letter) ==
    seq_sum([k \in 1..Len(series) |-> str_count(series[k].value, letter)])

letter_probabilities(series) ==
    LET letters == [letter \in Letters |-> letter_occurrences(series, letter)]
        total   == seq_sum([k \in 1..Len(Alphabet) |-> letters[Alphabet[k]]])
    IN  [letter \in Letters |-> <<letters[letter], total>>]

\* a scorer that counts a letter once for each time the word holds it
weighted_index_per_occurrence(w, letters) ==
    <<seq_sum([k \in 1..Len(Alphabet) |-> str_count(w, Alphabet[k]) * letters[Alphabet[k]][1]]),
      letters[Alphabet[1]][2]>>

\* words.str.contains(letter).values * probability, summed over the letters
weighted_index(w, letters) ==
    <<seq_sum([k \in 1..Len(Alphabet) |->
                 IF str_contains(w, Alphabet[k]) THEN letters[Alphabet[k]][1] ELSE 0]),
      letters[Alphabet[1]][2]>>

word_letter_scores(series) ==
    LET letters == letter_probabilities(series)
        weighted_indices == [k \in 1..Len(series) |-> weighted_index(series[k].value, letters)]
        total == <<seq_sum([k \in 1..Len(series) |-> weighted_indices[k][1]]),
                   letters[Alphabet[1]][2]>>
    IN  [k \in 1..Len(series) |-> frac_div(weighted_indices[k], total)]

(***************************************************************************)
(* word_choices.                                                           *)
(***************************************************************************)
in_word_list(ip, oop) ==
    dict_values(ip) \o Concat([k \in 1..Len(dict_keys(oop)) |-> oop[dict_keys(oop)[k]]])

in_place_mask(w, index, character) == mask_eq(str_get(w, index), character)

in_word_mask(w, character) == str_contains(w, character)

\* a filter for which a not_in_word letter is absent from the word, whatever is known
threshold_zero(in_word, character) == 0

\* a filter whose threshold is the number of all the in-word letters
threshold_len(in_word, character) == Len(in_word)

\* threshold = in_word.count(character)
threshold_of(in_word, character) == list_count(in_word, character)

not_in_word_mask(w, character, threshold) == str_count(w, character) <= threshold

out_of_place_mask(w, index, character) == mask_ne(str_get(w, index), character)

\* words = words[mask]: the rows whose mask is True, in their order
RECURSIVE keep_in_place(_, _)
keep_in_place(series, items) ==
    IF items = <<>> THEN series
    ELSE keep_in_place(
             SelectSeq(series, LAMBDA r : in_place_mask(r.value, Head(items)[1], Head(items)[2])),
             Tail(items))

RECURSIVE keep_in_word(_, _)
keep_in_word(series, in_word) ==
    IF in_word = <<>> THEN series
    ELSE keep_in_word(SelectSeq(series, LAMBDA r : in_word_mask(r.value, Head(in_word))),
                      Tail(in_word))

RECURSIVE keep_not_in_word(_, _, _)
keep_not_in_word(series, niw, in_word) ==
    IF niw = <<>> THEN series
    ELSE keep_not_in_word(
             SelectSeq(series, LAMBDA r : not_in_word_mask(r.value, Head(niw),
                                                           threshold_of(in_word, Head(niw)))),
             Tail(niw), in_word)

RECURSIVE keep_out_of_place(_, _)
keep_out_of_place(series, items) ==
    IF items = <<>> THEN series
    ELSE keep_out_of_place(
             SelectSeq(series, LAMBDA r : out_of_place_mask(r.value, Head(items)[1], Head(items)[2])),
             Tail(items))

in_place_items(ip) == [k \in 1..Len(dict_keys(ip)) |-> <<dict_keys(ip)[k], ip[dict_keys(ip)[k]]>>]

word_choices(series, ip, oop, niw) ==
    LET in_word == in_word_list(ip, oop)
        s1 == keep_in_place(series, in_place_items(ip))
        s2 == keep_in_word(s1, in_word)
        s3 == keep_not_in_word(s2, niw, in_word)
    IN  keep_out_of_place(s3, out_of_place_items(oop))

(***************************************************************************)
(* The session of the __main__ block.                                      *)
(***************************************************************************)
\* DataFrame({'word': ..., 'letter_score': word_letter_scores(words).values})
DataFrame(list) ==
    LET scores == word_letter_scores(Series(list))
    IN  [k \in 1..Len(list) |->
           [index |-> k - 1, word |-> list[k], letter_score |-> scores[k]]]

\* words['word']
column_word(df) == [k \in 1..Len(df) |-> [index |-> df[k].index, value |-> df[k].word]]

\* a selection that returns the rows last to first
loc_reversed(df, index) ==
    [k \in 1..Len(index) |->
        df[CHOOSE j \in 1..Len(df) : df[j].index = index[Len(index) + 1 - k]]]

\* words.loc[index]: the rows with the given labels, in the order of the labels
loc(df, index) ==
    [k \in 1..Len(index) |-> df[CHOOSE j \in 1..Len(df) : df[j].index = index[k]]]

\* words[words['letter_score'] == words['letter_score'].max()].iloc[0]['word']
highest_letter_score(df) ==
    LET max == CHOOSE x \in {df[k].letter_score : k \in 1..Len(df)} :
                   \A k \in 1..Len(df) : frac_le(df[k].letter_score, x)
    IN  SelectSeq(df, LAMBDA r : frac_eq(r.letter_score, max))[1].word

upper_indices(line) == {k - 1 : k \in {j \in 1..Len(line) : isupper(line[j])}}

\* for index, letter in enumerate(green): if letter.isupper(): in_place[index] = letter.lower()
record_green(ip, line) ==
    [index \in DOMAIN ip \cup upper_indices(line) |->
        IF index \in upper_indices(line) THEN lower(line[index + 1]) ELSE ip[index]]

\* a recorder that starts a new list at every capital
record_yellow_replacing(oop, line) ==
    [index \in DOMAIN oop \cup upper_indices(line) |->
        IF index \in upper_indices(line) THEN <<lower(line[index + 1])>> ELSE oop[index]]

\* out_of_place[index].append(letter.lower()), on a new list where there is none
record_yellow(oop, line) ==
    [index \in DOMAIN oop \cup upper_indices(line) |->
        IF index \in upper_indices(line)
        THEN (IF index \in DOMAIN oop THEN oop[index] ELSE <<>>) \o <<lower(line[index + 1])>>
        ELSE oop[index]]

\* in_word_indices = set((*in_place, *out_of_place))
seed_indices(ip, oop) == DOMAIN ip \cup DOMAIN oop

\* for index, letter in enumerate(word):
\*     if index not in in_word_indices: not_in_word.append(letter.lower())
record_grey(niw, w, indices) ==
    LET enumerated == [k \in 1..Len(w) |-> <<k - 1, w[k]>>]
        grey == SelectSeq(enumerated, LAMBDA p : p[1] \notin indices)
    IN  niw \o [k \in 1..Len(grey) |-> lower(grey[k][2])]

\* a loop that stops on an empty list only
settled_when_empty(frame) == Len(frame) = 0

\* if len(words) <= 1: ... break
settled(frame) == Len(frame) <= 1

\* lines 114-136: filter, report, stop on 0 or 1 words, else suggest (the random
\* word of line 135 is printed only and changes nothing)
Loop ==
    /\ pc = "loop"
    /\ LET result == word_choices(column_word(words), in_place, out_of_place, not_in_word)
           frame  == loc(words, series_index(result))
       IN  /\ choices' = result
           /\ words' = frame
           /\ IF settled(frame)
              THEN /\ printed' = IF Len(frame) = 1 THEN <<"should be", frame[1].word>> ELSE <<>>
                   /\ pc' = "done"
                   /\ UNCHANGED <<highest_letter_score_word, most_used_word>>
              ELSE /\ highest_letter_score_word' = highest_letter_score(frame)
                   /\ most_used_word' = frame[1].word
                   /\ pc' = "green"
                   /\ UNCHANGED printed
    /\ UNCHANGED <<cached, in_place, out_of_place, not_in_word, green, yellow, word,
                   in_word_indices, rounds, target>>

\* lines 138-152: the first prompt
ReadGreen(line) ==
    /\ pc = "green"
    /\ rounds < MaxRounds
    /\ LET typed == IF Len(line) = 0 THEN most_used_word ELSE line
       IN  /\ green' = typed
           /\ word' = str_lower(typed)
           /\ IF Len(typed) > 0 /\ all_isupper(typed)
              THEN /\ printed' = <<"is", str_lower(typed)>>
                   /\ pc' = "done"
                   /\ UNCHANGED <<in_place, in_word_indices>>
              ELSE /\ in_place' = record_green(in_place, typed)
                   /\ in_word_indices' =
                          seed_indices(in_place, out_of_place) \cup upper_indices(typed)
                   /\ pc' = "yellow"
                   /\ UNCHANGED printed
    /\ UNCHANGED <<cached, words, out_of_place, not_in_word, choices, yellow,
                   highest_letter_score_word, most_used_word, rounds, target>>

\* lines 154-167: the second prompt, then the letters that are neither
ReadYellow(line) ==
    /\ pc = "yellow"
    /\ yellow' = line
    /\ out_of_place' = record_yellow(out_of_place, line)
    /\ in_word_indices' = in_word_indices \cup upper_indices(line)
    /\ not_in_word' = record_grey(not_in_word, word, in_word_indices \cup upper_indices(line))
    /\ pc' = "loop"
    /\ rounds' = rounds + 1
    /\ UNCHANGED <<cached, words, in_place, choices, green, word,
                   highest_letter_score_word, most_used_word, printed, target>>

(***************************************************************************)
(* The inputs: the word lists the word source may return, and the lines    *)
(* the user may type.                                                      *)
(***************************************************************************)
WordLists ==
    { << <<"c", "a", "a">>, <<"a", "c", "c">>, <<"a", "b", "c">> >>,
      << <<"a", "a", "b">>, <<"b", "b", "c">>, <<"c", "b", "a">>, <<"b", "b", "c">> >>,
      << <<"a", "a", "a">>, <<"b", "a", "b">>, <<"b", "b", "a">>, <<"b", "b", "b">>,
         <<"c", "c", "c">>, <<"c", "c", "c">> >> }

list_words(list) == {list[k] : k \in 1..Len(list)}

word_length(list) == Len(list[1])

capitalized(s, marked) == [k \in 1..Len(s) |-> IF k \in marked THEN upper(s[k]) ELSE s[k]]

capitalizations(s) == {capitalized(s, marked) : marked \in SUBSET (1..Len(s))}

\* what the user may type at the first prompt: nothing, a word of the list with
\* some letters capitalized, a shorter line or a line one character too long; at
\* the second prompt the user types the same word again, capitalized anew
TypedLines(list) ==
    {<<>>} \cup UNION {capitalizations(w) : w \in list_words(list)}
           \cup capitalizations(<<"b">>)
           \cup {capitalized(list[1] \o <<"a">>, marked) :
                    marked \in {{}, {Len(list[1]) + 1}, {1, Len(list[1]) + 1}}}

Start ==
    /\ words = DataFrame(cached)
    /\ in_place = EmptyDict
    /\ out_of_place = EmptyDict
    /\ not_in_word = <<>>
    /\ green = <<>>
    /\ yellow = <<>>
    /\ word = <<>>
    /\ in_word_indices = {}
    /\ highest_letter_score_word = <<>>
    /\ most_used_word = <<>>
    /\ printed = <<>>
    /\ rounds = 0

Init ==
    /\ cached \in WordLists
    /\ Start
    /\ choices = <<>>
    /\ pc = "loop"
    /\ target = <<>>

Next ==
    \/ Loop
    \/ \E line \in TypedLines(cached) : ReadGreen(line)
    \/ \E line \in capitalizations(word) : ReadYellow(line)

Spec == Init /\ [][Next]_vars

(***************************************************************************)
(* The session with a user who holds a target word of the list and marks   *)
(* every guess truthfully: a position is green when the guess has the      *)
(* target's letter there; of the other positions holding a letter, the     *)
(* leftmost ones are yellow, as many as the target has more of that letter *)
(* than the guess has in green.                                            *)
(***************************************************************************)
is_green(guess, t, k) == guess[k] = t[k]

is_yellow(guess, t, k) ==
    /\ ~is_green(guess, t, k)
    /\ Cardinality({j \in 1..(k - 1) : guess[j] = guess[k] /\ ~is_green(guess, t, j)})
         < str_count(t, guess[k])
             - Cardinality({j \in 1..Len(guess) : guess[j] = guess[k] /\ is_green(guess, t, j)})

truthful_green(guess, t) ==
    capitalized(guess, {k \in 1..Len(guess) : is_green(guess, t, k)})

truthful_yellow(guess, t) ==
    capitalized(guess, {k \in 1..Len(guess) : is_yellow(guess, t, k)})

AllWords(n) == {[k \in 1..n |-> f[k]] : f \in [1..n -> Letters]}

InitTruthful ==
    /\ cached \in WordLists
    /\ Start
    /\ choices = <<>>
    /\ pc = "loop"
    /\ target \in list_words(cached)

\* the user guesses any word of the right length
NextTruthful ==
    \/ Loop
    \/ \E guess \in AllWords(word_length(cached)) : ReadGreen(truthful_green(guess, target))
    \/ ReadYellow(truthful_yellow(word, target))

SpecTruthful == InitTruthful /\ [][NextTruthful]_vars

\* the user guesses a word of the list printed in this round
NextPool ==
    \/ Loop
    \/ \E k \in 1..Len(words) : ReadGreen(truthful_green(words[k].word, target))
    \/ ReadYellow(truthful_yellow(word, target))

SpecPool == InitTruthful /\ [][NextPool]_vars

(***************************************************************************)
(* word_choices on its own: a caller that holds a list of words and grows  *)
(* the three feedback arguments one entry at a time, calling word_choices  *)
(* with the list and the arguments after each.                             *)
(***************************************************************************)
WordPools ==
    WordLists \cup
    { << <<"a", "a", "a">>, <<"a", "a", "b">>, <<"a", "b", "a">>, <<"a", "b", "b">>,
         <<"b", "a", "a">>, <<"b", "a", "b">>, <<"b", "b", "a">>, <<"b", "b", "b">>,
         <<"a", "b", "c">>, <<"c", "a", "b">>, <<"c", "c", "a">>, <<"b", "c", "c">>,
         <<"a", "b", "a">> >> }

entries(ip, oop, niw) == Cardinality(DOMAIN ip) + Len(out_of_place_items(oop)) + Len(niw)

InitWC ==
    /\ cached \in WordPools
    /\ Start
    /\ choices = word_choices(column_word(words), in_place, out_of_place, not_in_word)
    /\ pc = "call"
    /\ target = <<>>

Call(ip, oop, niw) ==
    /\ pc = "call"
    /\ entries(in_place, out_of_place, not_in_word) < MaxEntries
    /\ in_place' = ip
    /\ out_of_place' = oop
    /\ not_in_word' = niw
    /\ choices' = word_choices(column_word(words), ip, oop, niw)
    /\ UNCHANGED <<cached, words, pc, green, yellow, word, in_word_indices,
                   highest_letter_score_word, most_used_word, printed, rounds, target>>

AddInPlace ==
    \E index \in 0..(word_length(cached) - 1) : \E character \in Letters :
        /\ index \notin DOMAIN in_place
        /\ Call(dict_set(in_place, index, character), out_of_place, not_in_word)

AddOutOfPlace ==
    \E index \in 0..(word_length(cached) - 1) : \E character \in Letters :
        Call(in_place,
             dict_set(out_of_place, index,
                      (IF index \in DOMAIN out_of_place THEN out_of_place[index] ELSE <<>>)
                          \o <<character>>),
             not_in_word)

AddNotInWord ==
    \E character \in Letters :
        Call(in_place, out_of_place, Append(not_in_word, character))

NextWC == AddInPlace \/ AddOutOfPlace \/ AddNotInWord

SpecWC == InitWC /\ [][NextWC]_vars

(***************************************************************************)
(* Properties.                                                             *)
(***************************************************************************)
is_prefix(a, b) == Len(a) <= Len(b) /\ \A k \in 1..Len(a) : a[k] = b[k]

RECURSIVE is_subsequence(_, _)
is_subsequence(a, b) ==
    IF a = <<>> THEN TRUE
    ELSE IF b = <<>> THEN FALSE
    ELSE IF Head(a) = Head(b) THEN is_subsequence(Tail(a), Tail(b))
    ELSE is_subsequence(a, Tail(b))

pool_words == {words[k].word : k \in 1..Len(words)}

\* the in-word letters, with multiplicity: how often a letter is an in_place value or
\* a member of an out_of_place list
in_word_times(ip, oop, character) ==
    Cardinality({index \in DOMAIN ip : ip[index] = character})
      + Cardinality({p \in UNION {{index} \X (1..Len(oop[index])) : index \in DOMAIN oop} :
                        oop[p[1]][p[2]] = character})

C1_Survives(w, ip, oop, niw) ==
    /\ \A index \in DOMAIN ip : w[index + 1] = ip[index]
    /\ \A character \in Letters :
           in_word_times(ip, oop, character) > 0 => \E k \in 1..Len(w) : w[k] = character
    /\ \A n \in 1..Len(niw) :
           Cardinality({k \in 1..Len(w) : w[k] = niw[n]}) <= in_word_times(ip, oop, niw[n])
    /\ \A index \in DOMAIN oop : \A j \in 1..Len(oop[index]) : w[index + 1] # oop[index][j]

\* C1: word_choices returns exactly the words of the pool that have every in_place
\* letter at its position, contain every in-word letter, hold each not_in_word letter
\* at most as often as it is an in-word letter, and have no out_of_place letter at
\* its position; in the order of the pool.
C1_WordChoicesContract ==
    pc = "call" =>
        series_values(choices)
            = SelectSeq(cached, LAMBDA w : C1_Survives(w, in_place, out_of_place, not_in_word))

C1_Witness ==
    /\ pc = "call"
    /\ DOMAIN in_place # {}
    /\ DOMAIN out_of_place # {}
    /\ \E n \in 1..Len(not_in_word) :
           in_word_times(in_place, out_of_place, not_in_word[n]) > 0
    /\ Len(choices) > 0
    /\ Len(choices) < Len(cached)

\* C2 as stated: a call with one more feedback entry never returns more words.
C2_Monotone == [][Len(choices') <= Len(choices)]_vars

added_in_word_letters ==
    {character \in Letters :
        in_word_times(in_place', out_of_place', character)
            > in_word_times(in_place, out_of_place, character)}

\* C2, amended: a call with one more feedback entry returns a subsequence of what the
\* call before returned, provided the entry is a not_in_word letter or an in-word
\* letter (in_place, out_of_place) that is not in not_in_word.
C2_MonotoneUnlessThresholdRaised ==
    [][(\A n \in 1..Len(not_in_word) : not_in_word[n] \notin added_in_word_letters)
          => is_subsequence(choices', choices)]_vars

C2_Witness ==
    /\ pc = "call"
    /\ DOMAIN out_of_place # {}
    /\ not_in_word # <<>>
    /\ \A n \in 1..Len(not_in_word) :
           in_word_times(in_place, out_of_place, not_in_word[n]) = 0
    /\ Len(choices) > 0
    /\ Len(choices) < Len(cached)

\* C3 as stated: a round appends to not_in_word exactly the letters of the guessed
\* word at the positions capitalized at neither prompt of that round.
C3_GreyOfThisRound ==
    [][pc = "yellow" /\ pc' = "loop" =>
          not_in_word' = not_in_word \o
              SelectSeq([k \in 1..Len(word) |-> IF isupper(green[k]) \/ isupper(yellow'[k])
                                                 THEN NA ELSE word[k]],
                        LAMBDA character : character # NA)]_vars

C4_Step ==
    /\ pc = "loop" =>
          \/ Len(words') = 0 /\ pc' = "done" /\ printed' = <<>>
          \/ Len(words') = 1 /\ pc' = "done" /\ printed' = <<"should be", words'[1].word>>
          \/ Len(words') >= 2 /\ pc' = "green" /\ printed' = <<>>
    /\ pc = "green" =>
          \/ /\ Len(green') > 0 /\ all_isupper(green')
             /\ pc' = "done" /\ printed' = <<"is", str_lower(green')>>
          \/ /\ ~(Len(green') > 0 /\ all_isupper(green'))
             /\ pc' = "yellow" /\ printed' = <<>>
    /\ pc = "yellow" => pc' = "loop" /\ printed' = <<>>

\* C4: the session ends after a filtering that leaves no word (nothing is reported)
\* or one word (reported), or at a line typed all in capitals (reported in lower
\* case), and goes on otherwise; once ended, nothing happens any more.
C4_Termination == [](pc = "done" => ~ENABLED Next) /\ [][C4_Step]_vars

C4_Witness ==
    /\ pc = "done"
    /\ rounds >= 1
    /\ Len(words) = 1
    /\ printed = <<"should be", words[1].word>>

\* C5 as stated: no entry of in_place, out_of_place or not_in_word is ever removed or
\* replaced.
C5_AppendOnly ==
    [][/\ \A index \in DOMAIN in_place :
              index \in DOMAIN in_place' /\ in_place'[index] = in_place[index]
       /\ \A index \in DOMAIN out_of_place :
              /\ index \in DOMAIN out_of_place'
              /\ \A character \in Letters :
                     list_count(out_of_place'[index], character)
                         >= list_count(out_of_place[index], character)
       /\ \A character \in Letters :
              list_count(not_in_word', character) >= list_count(not_in_word, character)]_vars

\* C5, amended: no position of in_place or out_of_place is ever removed, the lists of
\* out_of_place and not_in_word only grow at their end, and the letter of an in_place
\* position changes only at the first prompt, to the letter capitalized there.
C5_AppendOnlyButGreenOverwrites ==
    [][/\ \A index \in DOMAIN in_place :
              /\ index \in DOMAIN in_place'
              /\ in_place'[index] # in_place[index] =>
                     /\ pc = "green"
                     /\ index + 1 \in 1..Len(green')
                     /\ isupper(green'[index + 1])
                     /\ in_place'[index] = lower(green'[index + 1])
       /\ \A index \in DOMAIN out_of_place :
              /\ index \in DOMAIN out_of_place'
              /\ is_prefix(out_of_place[index], out_of_place'[index])
       /\ is_prefix(not_in_word, not_in_word')]_vars

C5_Witness ==
    /\ rounds = 2
    /\ DOMAIN in_place # {}
    /\ \E index \in DOMAIN out_of_place : Len(out_of_place[index]) = 2
    /\ Len(not_in_word) >= 2
\* a word's score over a list of words: the sum, over the distinct letters of the
\* word, of the occurrences of the letter in the words of the list
C6_Score(w, list) ==
    seq_sum([n \in 1..Len(Alphabet) |->
               IF \E k \in 1..Len(w) : w[k] = Alphabet[n]
               THEN seq_sum([j \in 1..Len(list) |->
                               Cardinality({k \in 1..Len(list[j]) : list[j][k] = Alphabet[n]})])
               ELSE 0])

C6_FirstBest(list) ==
    \E k \in 1..Len(words) :
        /\ words[k].word = highest_letter_score_word
        /\ \A j \in 1..Len(words) : C6_Score(words[j].word, list) <= C6_Score(words[k].word, list)
        /\ \A j \in 1..(k - 1) : C6_Score(words[j].word, list) < C6_Score(words[k].word, list)

\* C6 as stated: the highest-letter-score suggestion is the first word of the pool
\* with the highest score, the scores being taken over the pool of this round.
C6_BestOverCurrentPool ==
    pc = "green" => C6_FirstBest([k \in 1..Len(words) |-> words[k].word])

\* C6, amended: the highest-letter-score suggestion is the first word of the pool
\* with the highest score, the scores being those taken once over the initial list.
C6_BestOverInitialList == pc = "green" => C6_FirstBest(cached)

C6_Witness ==
    /\ pc = "green"
    /\ rounds >= 1
    /\ Len(words) < Len(cached)
    /\ ~C6_FirstBest([k \in 1..Len(words) |-> words[k].word])

C8_NoOutOfRangeIndex ==
    \A index \in DOMAIN in_place \cup DOMAIN out_of_place : index < word_length(cached)

\* C9: with truthful marks for every guess, the target stays in the pool: the pool
\* is never empty, and a pool of one word holds the target.
C9_TargetSurvives ==
    /\ target \in pool_words
    /\ Len(words) = 1 => words[1].word = target

C9_Witness ==
    /\ pc = "green"
    /\ rounds = 2
    /\ Len(words) < Len(cached)
    /\ DOMAIN in_place # {}
    /\ DOMAIN out_of_place # {}
    /\ \E n \in 1..Len(not_in_word) : str_contains(target, not_in_word[n])
    /\ target \in pool_words

\* C10 as stated: with truthful marks, a guess taken from the pool that is not the
\* target is gone from the pool after the next filtering, and the session takes no
\* more rounds than the initial list has words.
C10_GuessIsEliminated ==
    [][pc = "loop" /\ rounds >= 1 /\ word # target
          => (\A k \in 1..Len(words') : words'[k].word # word) /\ rounds <= Len(cached)]_vars

====
